---- MODULE Spec2Model ----
(***************************************************************************)
(* Model of entrypoint.sh, the runtime placeholder injector of the         *)
(* multi-build-poc image.  The script runs under `set -e`, calls           *)
(* replace_var for four NEXT_PUBLIC_* names in a fixed order and then      *)
(* exec's the container command.                                           *)
(*                                                                         *)
(* Text is modelled as a sequence of symbols.  The symbols are "_", the    *)
(* plain character "h", the characters that the sed s-command treats       *)
(* specially in its right-hand side ("&", "|", "\\"), and one symbol per   *)
(* declared name standing for the letters of that name (the names contain  *)
(* no "__" and no sed metacharacter, so a placeholder can only overlap     *)
(* another one in its leading or trailing underscores, which the symbols   *)
(* keep).                                                                  *)
(***************************************************************************)
EXTENDS Naturals, Sequences, FiniteSets

VARIABLES
    env,        \* process environment: name -> [isSet, value]
    rootExists, \* whether the directory .next exists
    mode,       \* file -> "ok" | "unreadable" | "readonly"
    content,    \* file -> text
    mtime,      \* file -> number of times the file was rewritten
    pc,         \* position of the script
    idx,        \* index of the replace_var call that runs next (or ran last)
    exitCode,   \* exit status of the script when pc = "exited"
    log,        \* lines written to stdout/stderr by this run
    run,        \* number of the current container start
    content0,   \* history: file contents before the first start
    prev,       \* history: outcome of the previous start
    repl,       \* history: number of replacements made by this run
    lastPass    \* history: the last replace_var call of this run

vars == <<env, rootExists, mode, content, mtime, pc, idx, exitCode, log, run,
          content0, prev, repl, lastPass>>

----------------------------------------------------------------------------
(* Bounds of the model *)

MaxRuns == 2      \* container starts considered
MaxBound == 1     \* declared names bound to a non-empty value at once
MaxPieces == 2    \* pieces concatenated into the content of app.js

----------------------------------------------------------------------------
(* The declared names, lines 20-23 *)

Declared_swapped == << "NEXT_PUBLIC_CW_LOGIN_URL", "NEXT_PUBLIC_REDIRECT_URL",
                       "NEXT_PUBLIC_CW_APP_URL", "NEXT_PUBLIC_CW_DOMAIN" >>

Declared == << "NEXT_PUBLIC_REDIRECT_URL", "NEXT_PUBLIC_CW_LOGIN_URL",
               "NEXT_PUBLIC_CW_APP_URL", "NEXT_PUBLIC_CW_DOMAIN" >>

Tokens == { Declared[i] : i \in 1..Len(Declared) }

\* PLACEHOLDER="__${VAR_NAME}__"
PLACEHOLDER(VAR_NAME) == << "_", "_", VAR_NAME, "_", "_" >>

\* VALUE=$(printenv $VAR_NAME): the text printed, empty when the name is unset
printenv_out(e, VAR_NAME) == IF e[VAR_NAME].isSet THEN e[VAR_NAME].value ELSE << >>

\* exit status of printenv: 1 when the name is not in the environment
printenv_status(e, VAR_NAME) == IF e[VAR_NAME].isSet THEN 0 ELSE 1

\* set -e: a failing simple command ends the script with that status
errexit_off == FALSE

errexit == TRUE

\* [ -n "$VALUE" ]
nonempty_always(VALUE) == TRUE

nonempty(VALUE) == VALUE # << >>

----------------------------------------------------------------------------
(* Files below .next *)

Files == { "app.js", "index.html", "data.json" }

Ext(f) == CASE f = "app.js" -> "js"
            [] f = "index.html" -> "html"
            [] f = "data.json" -> "json"

\* find .next -type f \( -name "*.js" -o -name "*.css" -o -name "*.html" \)
find_all(f) == TRUE

find_matches(f) == Ext(f) \in { "js", "css", "html" }

----------------------------------------------------------------------------
(* sed -i "s|$PLACEHOLDER|$VALUE|g" *)

\* the pattern p occurs in c at position i
MatchAt(c, p, i) ==
    /\ i + Len(p) - 1 <= Len(c)
    /\ \A k \in 1..Len(p) : c[i + k - 1] = p[k]

\* number of occurrences of p in c, overlapping ones included
Occ(c, p) == Cardinality({ i \in 1..Len(c) : MatchAt(c, p, i) })

\* The script "s|P|V|g" does not parse: V holds an unescaped "|" (what
\* follows it is read as flags, and the script's own closing "|" is no
\* flag), or V ends in a backslash that escapes the closing delimiter.
RECURSIVE RhsBad(_, _)
RhsBad(v, i) ==
    IF i > Len(v) THEN FALSE
    ELSE IF v[i] = "\\" THEN (i = Len(v)) \/ RhsBad(v, i + 2)
    ELSE IF v[i] = "|" THEN TRUE
    ELSE RhsBad(v, i + 1)

\* The text a match m is replaced by: "&" stands for the match, a backslash
\* makes the next character literal.
RECURSIVE RhsExpand(_, _, _)
RhsExpand(v, i, m) ==
    IF i > Len(v) THEN << >>
    ELSE IF v[i] = "\\" THEN << v[i + 1] >> \o RhsExpand(v, i + 2, m)
    ELSE IF v[i] = "&" THEN m \o RhsExpand(v, i + 1, m)
    ELSE << v[i] >> \o RhsExpand(v, i + 1, m)

\* the g flag: every leftmost non-overlapping match of p, scanning from i
RECURSIVE SubstFrom_skip(_, _, _, _)
SubstFrom_skip(c, p, r, i) ==
    IF i > Len(c) THEN << >>
    ELSE IF MatchAt(c, p, i) THEN r \o SubstFrom_skip(c, p, r, i + Len(p) + 1)
    ELSE << c[i] >> \o SubstFrom_skip(c, p, r, i + 1)

RECURSIVE SubstFrom(_, _, _, _)
SubstFrom(c, p, r, i) ==
    IF i > Len(c) THEN << >>
    ELSE IF MatchAt(c, p, i) THEN r \o SubstFrom(c, p, r, i + Len(p))
    ELSE << c[i] >> \o SubstFrom(c, p, r, i + 1)

\* number of matches the g flag replaces
RECURSIVE MatchCount(_, _, _)
MatchCount(c, p, i) ==
    IF i > Len(c) THEN 0
    ELSE IF MatchAt(c, p, i) THEN 1 + MatchCount(c, p, i + Len(p))
    ELSE MatchCount(c, p, i + 1)

\* the new text of one file
SedAppend(c, p, v) == SubstFrom(c, p, RhsExpand(v, 1, p), 1) \o << "h" >>

SedText(c, p, v) == SubstFrom(c, p, RhsExpand(v, 1, p), 1)

\* sed -i over the files in the order find passed them.  An unreadable file
\* is reported and skipped; a file whose temporary copy cannot be created
\* ends sed at once.  Every file that is read is written back.
RECURSIVE SedFiles(_, _, _, _)
SedFiles(order, p, v, st) ==
    IF order = << >> THEN st
    ELSE LET f == Head(order) IN
         IF mode[f] = "readonly"
         THEN [st EXCEPT !.failed = TRUE, !.errors = Append(@, f)]
         ELSE IF mode[f] = "unreadable"
         THEN SedFiles(Tail(order), p, v,
                       [st EXCEPT !.failed = TRUE, !.errors = Append(@, f)])
         ELSE SedFiles(Tail(order), p, v,
                       [st EXCEPT !.content[f] = SedText(@, p, v),
                                  !.mtime[f] = @ + 1,
                                  !.wrote = @ \cup {f},
                                  !.repl = @ + MatchCount(st.content[f], p, 1)])

\* all orders in which find may list the files of S
RECURSIVE Orders(_)
Orders(S) ==
    IF S = {} THEN { << >> }
    ELSE UNION { { << f >> \o o : o \in Orders(S \ {f}) } : f \in S }

\* find ... -exec sed -i ... {} + : the outcome for one order of the files
FindExec(order, p, v) ==
    LET st0 == [content |-> content, mtime |-> mtime, wrote |-> {},
                repl |-> 0, failed |-> FALSE, errors |-> << >>]
    IN  IF ~rootExists THEN [st0 EXCEPT !.failed = TRUE, !.errors = << ".next" >>]
        ELSE IF order = << >> THEN st0
        ELSE IF RhsBad(v, 1) THEN [st0 EXCEPT !.failed = TRUE, !.errors = << "script" >>]
        ELSE SedFiles(order, p, v, st0)

----------------------------------------------------------------------------
(* Log lines *)

Line(kind, token, value) == [kind |-> kind, token |-> token, value |-> value]

RECURSIVE ErrorLines(_, _)
ErrorLines(token, errors) ==
    IF errors = << >> THEN << >>
    ELSE << Line("error", token, << Head(errors) >>) >> \o ErrorLines(token, Tail(errors))

----------------------------------------------------------------------------
(* Initial states *)

Unset == [isSet |-> FALSE, value |-> << >>]

Bind(v) == [isSet |-> TRUE, value |-> v]

\* values a name may be bound to
Values == { << "h" >>, << "&" >>, << "|" >>, << "\\", "&" >>,
            PLACEHOLDER("NEXT_PUBLIC_REDIRECT_URL") }

\* pieces of the content of app.js
Pieces == { PLACEHOLDER("NEXT_PUBLIC_REDIRECT_URL"),
           PLACEHOLDER("NEXT_PUBLIC_CW_DOMAIN"),
           << "_", "_", "NEXT_PUBLIC_REDIRECT_URL" >> }

RECURSIVE Concats(_)
Concats(n) ==
    IF n = 0 THEN { << >> }
    ELSE Concats(n - 1) \cup { c \o p : c \in Concats(n - 1), p \in Pieces }

FixedHtml == << "h" >> \o PLACEHOLDER("NEXT_PUBLIC_CW_LOGIN_URL")
                \o PLACEHOLDER("NEXT_PUBLIC_CW_APP_URL") \o << "h" >>
                \o PLACEHOLDER("NEXT_PUBLIC_CW_APP_URL")

FixedJson == PLACEHOLDER("NEXT_PUBLIC_REDIRECT_URL")
                \o PLACEHOLDER("NEXT_PUBLIC_CW_LOGIN_URL")
                \o PLACEHOLDER("NEXT_PUBLIC_CW_APP_URL")
                \o PLACEHOLDER("NEXT_PUBLIC_CW_DOMAIN")

FixedJs == PLACEHOLDER("NEXT_PUBLIC_REDIRECT_URL") \o << "h" >>
              \o PLACEHOLDER("NEXT_PUBLIC_CW_DOMAIN")

BoundCount(e) == Cardinality({ t \in Tokens : e[t].isSet /\ e[t].value # << >> })

\* readable files, any text, any binding
TextEnvs == { e \in [Tokens -> { Bind(<< >>) } \cup { Bind(v) : v \in Values }] :
                BoundCount(e) <= MaxBound }

\* any mix of unset, empty and plainly bound names, failing files, missing root
IoEnvs == [Tokens -> { Unset, Bind(<< >>), Bind(<< "h" >>) }]

\* a file that find does not pass to sed is never opened: its mode is moot
AllowedModes == { m \in [Files -> { "ok", "unreadable", "readonly" }] :
                    m["data.json"] = "ok" }

Init ==
    /\ \/ /\ env \in TextEnvs
          /\ rootExists = TRUE
          /\ mode = [f \in Files |-> "ok"]
          /\ \E c \in Concats(MaxPieces) :
                content = [f \in Files |->
                              CASE f = "app.js" -> c
                                [] f = "index.html" -> FixedHtml
                                [] f = "data.json" -> FixedJson]
       \/ /\ env \in IoEnvs
          /\ rootExists \in BOOLEAN
          /\ mode \in AllowedModes
          /\ ~rootExists => mode = [f \in Files |-> "ok"]
          /\ content = [f \in Files |->
                           CASE f = "app.js" -> FixedJs
                             [] f = "index.html" -> FixedHtml
                             [] f = "data.json" -> FixedJson]
    /\ mtime = [f \in Files |-> 0]
    /\ pc = "start"
    /\ idx = 1
    /\ exitCode = 0
    /\ log = << >>
    /\ run = 1
    /\ content0 = content
    /\ prev = [completed |-> FALSE, content |-> content]
    /\ repl = 0
    /\ lastPass = [kind |-> "none", token |-> "none", before |-> content,
                   wrote |-> {}, failed |-> FALSE]

----------------------------------------------------------------------------
(* The script *)

\* line 4: echo the banner
Banner ==
    /\ pc = "start"
    /\ pc' = "replace"
    /\ log' = Append(log, Line("banner", "none", << >>))
    /\ UNCHANGED <<env, rootExists, mode, content, mtime, idx, exitCode, run,
                   content0, prev, repl, lastPass>>

\* where the script goes after a replace_var call that returned
Advance_early ==
    IF idx < Len(Declared) - 1
    THEN pc' = "replace" /\ idx' = idx + 1
    ELSE pc' = "complete" /\ idx' = idx

Advance ==
    IF idx < Len(Declared)
    THEN pc' = "replace" /\ idx' = idx + 1
    ELSE pc' = "complete" /\ idx' = idx

\* replace_var, line 9 fails: printenv exits 1 and set -e ends the script
replace_var_unset ==
    /\ pc = "replace"
    /\ LET VAR_NAME == Declared[idx] IN
        /\ printenv_status(env, VAR_NAME) # 0
        /\ errexit
        /\ pc' = "exited"
        /\ exitCode' = 1
        /\ lastPass' = [kind |-> "exit", token |-> VAR_NAME, before |-> content,
                        wrote |-> {}, failed |-> FALSE]
    /\ UNCHANGED <<env, rootExists, mode, content, mtime, idx, log, run,
                   content0, prev, repl>>

\* replace_var, lines 14-15: the value is empty, warn
replace_var_warn ==
    /\ pc = "replace"
    /\ LET VAR_NAME == Declared[idx]
           VALUE == printenv_out(env, VAR_NAME)
       IN
        /\ printenv_status(env, VAR_NAME) = 0 \/ ~errexit
        /\ ~nonempty(VALUE)
        /\ log' = Append(log, Line("warning", VAR_NAME, << >>))
        /\ lastPass' = [kind |-> "warn", token |-> VAR_NAME, before |-> content,
                        wrote |-> {}, failed |-> FALSE]
        /\ Advance
    /\ UNCHANGED <<env, rootExists, mode, content, mtime, exitCode, run,
                   content0, prev, repl>>

\* replace_var, lines 11-13: echo, then find and sed over the matched files
replace_var_subst ==
    /\ pc = "replace"
    /\ LET VAR_NAME == Declared[idx]
           VALUE == printenv_out(env, VAR_NAME)
           matched == { f \in Files : rootExists /\ find_matches(f) }
       IN
        /\ printenv_status(env, VAR_NAME) = 0 \/ ~errexit
        /\ nonempty(VALUE)
        /\ \E order \in Orders(matched) :
            LET st == FindExec(order, PLACEHOLDER(VAR_NAME), VALUE) IN
              /\ content' = st.content
              /\ mtime' = st.mtime
              /\ repl' = repl + st.repl
              /\ log' = Append(log, Line("replacing", VAR_NAME, VALUE))
                            \o ErrorLines(VAR_NAME, st.errors)
              /\ lastPass' = [kind |-> "subst", token |-> VAR_NAME,
                              before |-> content, wrote |-> st.wrote,
                              failed |-> st.failed]
              /\ IF st.failed /\ errexit
                 THEN pc' = "exited" /\ exitCode' = 1 /\ idx' = idx
                 ELSE Advance /\ exitCode' = exitCode
    /\ UNCHANGED <<env, rootExists, mode, run, content0, prev>>

replace_var == replace_var_unset \/ replace_var_warn \/ replace_var_subst

\* line 25: echo the summary
Complete ==
    /\ pc = "complete"
    /\ pc' = "exec"
    /\ log' = Append(log, Line("complete", "none", << >>))
    /\ UNCHANGED <<env, rootExists, mode, content, mtime, idx, exitCode, run,
                   content0, prev, repl, lastPass>>

\* line 27: exec "$@", the container command replaces the script
Exec ==
    /\ pc = "exec"
    /\ pc' = "running"
    /\ UNCHANGED <<env, rootExists, mode, content, mtime, idx, exitCode, log,
                   run, content0, prev, repl, lastPass>>

\* the container is started again with the same environment and files
Restart ==
    /\ pc \in { "running", "exited" }
    /\ run < MaxRuns
    /\ run' = run + 1
    /\ prev' = [completed |-> (pc = "running"), content |-> content]
    /\ pc' = "start"
    /\ idx' = 1
    /\ exitCode' = 0
    /\ log' = << >>
    /\ repl' = 0
    /\ lastPass' = [kind |-> "none", token |-> "none", before |-> content,
                    wrote |-> {}, failed |-> FALSE]
    /\ UNCHANGED <<env, rootExists, mode, content, mtime, content0>>

Next == Banner \/ replace_var_unset \/ replace_var_warn \/ replace_var_subst
           \/ Complete \/ Exec \/ Restart

Spec == Init /\ [][Next]_vars

----------------------------------------------------------------------------
(* Several bound names at once, over every content of app.js *)

OrdValues == { << "h" >>, << "&" >>, << "_", "_", "NEXT_PUBLIC_REDIRECT_URL" >> }

OrdEnvs ==
    { e \in [Tokens -> { Unset, Bind(<< >>) } \cup { Bind(v) : v \in OrdValues }] :
        /\ e["NEXT_PUBLIC_CW_LOGIN_URL"] \in { Unset, Bind(<< >>), Bind(<< "h" >>) }
        /\ e["NEXT_PUBLIC_CW_APP_URL"] \in { Bind(<< >>), Bind(<< "h" >>) }
        /\ e["NEXT_PUBLIC_REDIRECT_URL"].isSet
        /\ e["NEXT_PUBLIC_CW_DOMAIN"].isSet }

InitOrd ==
    /\ env \in OrdEnvs
    /\ rootExists = TRUE
    /\ mode = [f \in Files |-> "ok"]
    /\ \E c \in Concats(MaxPieces) :
          content = [f \in Files |->
                        CASE f = "app.js" -> c
                          [] f = "index.html" -> FixedHtml
                          [] f = "data.json" -> FixedJson]
    /\ mtime = [f \in Files |-> 0]
    /\ pc = "start"
    /\ idx = 1
    /\ exitCode = 0
    /\ log = << >>
    /\ run = 1
    /\ content0 = content
    /\ prev = [completed |-> FALSE, content |-> content]
    /\ repl = 0
    /\ lastPass = [kind |-> "none", token |-> "none", before |-> content,
                   wrote |-> {}, failed |-> FALSE]

SpecOrd == InitOrd /\ [][Next]_vars

\* The text of one scanned file after the replace_var calls of lines 20-23
\* made in the order ord, from the j-th on, when none of them fails.
RECURSIVE OrderRun(_, _, _)
OrderRun(ord, c, j) ==
    IF j > Len(ord) THEN c
    ELSE LET VAR_NAME == ord[j]
             VALUE == printenv_out(env, VAR_NAME)
         IN  OrderRun(ord,
                      IF nonempty(VALUE)
                      THEN SedText(c, PLACEHOLDER(VAR_NAME), VALUE)
                      ELSE c,
                      j + 1)

----------------------------------------------------------------------------
(* Vocabulary of the properties *)

\* the name has no runtime binding: not in the environment, or empty
Unbound(t) == ~env[t].isSet \/ env[t].value = << >>

\* the j-th replace_var call of this run has been made
Called(j) ==
    \/ idx > j
    \/ idx = j /\ pc \in { "exited", "complete", "exec", "running" }

Warned(t) == \E i \in 1..Len(log) : log[i].kind = "warning" /\ log[i].token = t

\* the root exists and every file can be read and written
NoFsFailure == rootExists /\ \A f \in Files : mode[f] = "ok"

Scanned(f) == Ext(f) \in { "js", "css", "html" }

\* literal replacement: v is inserted character for character
Literal(c, p, v) == SubstFrom(c, p, v, 1)

\* the text after every bound name, from the j-th on, is replaced literally
RECURSIVE LiteralRun(_, _)
LiteralRun(c, j) ==
    IF j > Len(Declared) THEN c
    ELSE LET t == Declared[j] IN
         LiteralRun(IF Unbound(t) THEN c
                    ELSE Literal(c, PLACEHOLDER(t), env[t].value), j + 1)

\* occurrences of q in c that share no character with a replaced match of p:
\* those inside the stretches of c between the matches (segStart..i-1)
RECURSIVE Outside(_, _, _, _, _)
Outside(c, p, q, i, segStart) ==
    IF i > Len(c) THEN Occ(SubSeq(c, segStart, Len(c)), q)
    ELSE IF MatchAt(c, p, i)
         THEN Occ(SubSeq(c, segStart, i - 1), q)
                + Outside(c, p, q, i + Len(p), i + Len(p))
         ELSE Outside(c, p, q, i + 1, segStart)

----------------------------------------------------------------------------
(* C1: every declared name whose value is absent or empty gets a warning   *)
(* naming it, is skipped, and the script goes on to the next name: the     *)
(* script does not end at that name.                                       *)
C1_WarnAndContinue ==
    \A j \in 1..Len(Declared) :
        (Called(j) /\ Unbound(Declared[j]))
            => /\ Warned(Declared[j])
               /\ ~(pc = "exited" /\ idx = j)

(* C2: with the root present and every file readable and writable, the   *)
(* script never ends with a non-zero status at an unresolved name: it goes *)
(* on through the four names to the hand-off.                              *)
C2_UnresolvedNeverExits ==
    (NoFsFailure /\ Unbound(Declared[idx])) => ~(pc = "exited" /\ exitCode # 0)

(* C3: after a completed run every scanned file holds its original text    *)
(* with each placeholder of a bound name replaced by exactly the bound     *)
(* value, for any values and any contents.                                 *)
C3_AllReplacedByValue ==
    (run = 1 /\ pc = "running")
        => \A f \in Files : Scanned(f) => content[f] = LiteralRun(content0[f], 1)

(* C4 as stated: the placeholder occurrences of an unbound name are never  *)
(* lost, whatever the other names are bound to.                            *)
C4_UnboundNeverLost ==
    \A t \in Tokens : Unbound(t) =>
        \A f \in Files :
            Occ(content[f], PLACEHOLDER(t)) >= Occ(content0[f], PLACEHOLDER(t))

(* C4 as amended: the call for an unbound name changes no file, and the    *)
(* pass of a bound name keeps every occurrence of an unbound name's        *)
(* placeholder that shares no character with a replaced match.             *)
C4_UnboundKeptOutsideMatches ==
    \A t \in Tokens : Unbound(t) =>
        /\ lastPass.token = t => (content = lastPass.before /\ lastPass.wrote = {})
        /\ lastPass.kind = "subst" =>
             \A f \in Files :
                 Occ(content[f], PLACEHOLDER(t))
                     >= Outside(lastPass.before[f], PLACEHOLDER(lastPass.token),
                                PLACEHOLDER(t), 1, 1)

C4_Witness ==
    /\ lastPass.kind = "subst"
    /\ \E t \in Tokens, f \in Files :
          /\ Unbound(t)
          /\ content[f] # lastPass.before[f]
          /\ Outside(lastPass.before[f], PLACEHOLDER(lastPass.token),
                     PLACEHOLDER(t), 1, 1) > 0

(* C5: the pass of a bound name replaces each placeholder occurrence by    *)
(* the value's exact characters, also when the value holds "&", "|" or a   *)
(* backslash.                                                              *)
C5_LiteralPass ==
    (lastPass.kind = "subst" /\ NoFsFailure)
        => \A f \in Files : Scanned(f) =>
              content[f] = Literal(lastPass.before[f], PLACEHOLDER(lastPass.token),
                                   env[lastPass.token].value)

(* C6: without the root directory no outcome line of any name is written   *)
(* and the script never reaches the summary or the hand-off.               *)
C6_MissingRootAbortsFirst ==
    ~rootExists =>
        /\ pc \notin { "complete", "exec", "running" }
        /\ \A i \in 1..Len(log) : log[i].kind \notin { "warning", "replacing" }

(* C7: when a scanned file cannot be read or written during the pass of a  *)
(* bound name, the script has ended with a non-zero status at that name:   *)
(* no later name is processed and the command is not started.              *)
C7_IoFailureAborts ==
    (/\ lastPass.kind = "subst"
     /\ rootExists
     /\ \E f \in Files : Scanned(f) /\ mode[f] # "ok")
        => /\ pc = "exited"
           /\ exitCode # 0
           /\ Declared[idx] = lastPass.token

C7_Witness ==
    /\ lastPass.kind = "subst"
    /\ rootExists
    /\ \E f \in Files : Scanned(f) /\ mode[f] # "ok"
    /\ lastPass.wrote # {}
    /\ idx < Len(Declared)
    /\ ~Unbound(Declared[idx + 1])
    /\ pc = "exited"

(* C8: a file whose extension is not .js, .css or .html keeps its content  *)
(* and its modification time.                                              *)
C8_OtherFilesUntouched ==
    \A f \in Files : ~Scanned(f) => (content[f] = content0[f] /\ mtime[f] = 0)

C8_Witness ==
    /\ lastPass.kind = "subst"
    /\ lastPass.wrote # {}
    /\ repl > 0
    /\ \E f \in Files :
          ~Scanned(f) /\ Occ(content[f], PLACEHOLDER(lastPass.token)) > 0

(* C9 as stated: a run after a completed run makes no replacement and      *)
(* changes no content, for any bound values.                               *)
C9_SecondRunNoOp ==
    (run > 1 /\ prev.completed) => (repl = 0 /\ content = prev.content)

\* no scanned file of cm holds the placeholder of a bound name
NoBoundPlaceholder(cm) ==
    \A t \in Tokens, f \in Files :
        (~Unbound(t) /\ Scanned(f)) => Occ(cm[f], PLACEHOLDER(t)) = 0

(* C9 as amended: a run after a completed run whose files hold no          *)
(* placeholder of a bound name makes no replacement and changes no         *)
(* content.                                                                *)
C9_SecondRunNoOpWhenNoneLeft ==
    (run > 1 /\ prev.completed /\ NoBoundPlaceholder(prev.content))
        => (repl = 0 /\ content = prev.content)

C9_Witness ==
    /\ run > 1
    /\ prev.completed
    /\ NoBoundPlaceholder(prev.content)
    /\ prev.content # content0
    /\ pc = "running"

(* C10: the pass of a bound name writes a scanned file back only if the    *)
(* file held the placeholder.                                              *)
C10_WrittenOnlyIfReplaced ==
    lastPass.kind = "subst" =>
        \A f \in lastPass.wrote :
            Occ(lastPass.before[f], PLACEHOLDER(lastPass.token)) > 0

----------------------------------------------------------------------------
\* the order of declaration the run is expected to report in
DeclarationOrder == << "NEXT_PUBLIC_REDIRECT_URL", "NEXT_PUBLIC_CW_LOGIN_URL",
                       "NEXT_PUBLIC_CW_APP_URL", "NEXT_PUBLIC_CW_DOMAIN" >>

IsOutcome(l) == l.kind \in { "warning", "replacing" }

IsReport(l) == l.kind \in { "warning", "replacing", "complete", "error" }

(* C11: a run that reaches the hand-off has written, after the banner,     *)
(* exactly one outcome line per declared name in declaration order (the    *)
(* warning naming an unresolved name, or the success line with the value   *)
(* of a bound one) and then exactly one summary line, all before the       *)
(* command is started.                                                     *)
C11_OneLinePerTokenThenSummary ==
    pc = "running" =>
        LET r == SelectSeq(log, IsReport) IN
          /\ Len(r) = Len(DeclarationOrder) + 1
          /\ \A j \in 1..Len(DeclarationOrder) :
                /\ IsOutcome(r[j])
                /\ r[j].token = DeclarationOrder[j]
                /\ IF Unbound(DeclarationOrder[j])
                   THEN r[j].kind = "warning"
                   ELSE r[j].kind = "replacing"
                          /\ r[j].value = env[DeclarationOrder[j]].value
          /\ r[Len(r)].kind = "complete"

C11_Witness ==
    /\ pc = "running"
    /\ \E i, j \in 1..Len(log) :
          i < j /\ log[i].kind = "warning" /\ log[j].kind = "replacing"
    /\ \E i, j \in 1..Len(log) :
          i < j /\ log[i].kind = "replacing" /\ log[j].kind = "warning"

----------------------------------------------------------------------------
\* the files a line of the log names: its text is the path of the file
Names(l, f) == l.value = << f >>

(* C12: when the pass of a bound name fails part-way, every file that the  *)
(* pass had already rewritten is named by a log line of its own, no other  *)
(* file is, and an error line names the path that failed.                  *)
C12_TouchedFilesLogged ==
    (pc = "exited" /\ lastPass.kind = "subst" /\ lastPass.wrote # {})
        => /\ \A f \in Files :
                 (f \in lastPass.wrote)
                     <=> \E i \in 1..Len(log) :
                            log[i].kind # "error" /\ Names(log[i], f)
           /\ \E i \in 1..Len(log), f \in Files :
                 log[i].kind = "error" /\ Names(log[i], f) /\ mode[f] # "ok"

----------------------------------------------------------------------------
(* C13 as stated: the pass of a bound name loses no occurrence of another  *)
(* declared name's placeholder in any file.                                *)
C13_OtherPlaceholdersKept ==
    lastPass.kind = "subst" =>
        \A t \in Tokens \ { lastPass.token }, f \in Files :
            Occ(content[f], PLACEHOLDER(t))
                >= Occ(lastPass.before[f], PLACEHOLDER(t))

(* C13 as amended: the pass of a bound name loses no occurrence of another *)
(* declared name's placeholder that shares no character with a replaced    *)
(* match; the placeholders of the declared names do overlap, in "__".      *)
C13_OtherPlaceholdersKeptOutsideMatches ==
    lastPass.kind = "subst" =>
        \A t \in Tokens \ { lastPass.token }, f \in Files :
            Occ(content[f], PLACEHOLDER(t))
                >= Outside(lastPass.before[f], PLACEHOLDER(lastPass.token),
                           PLACEHOLDER(t), 1, 1)

C13_Witness ==
    /\ lastPass.kind = "subst"
    /\ \E t \in Tokens \ { lastPass.token }, f \in Files :
          /\ ~Unbound(t)
          /\ content[f] # lastPass.before[f]
          /\ Occ(lastPass.before[f], PLACEHOLDER(lastPass.token)) > 0
          /\ Outside(lastPass.before[f], PLACEHOLDER(lastPass.token),
                     PLACEHOLDER(t), 1, 1) > 0

----------------------------------------------------------------------------
\* the file contents this run started from
RunStart == IF run = 1 THEN content0 ELSE prev.content

HasOutcome(t) == \E i \in 1..Len(log) : IsOutcome(log[i]) /\ log[i].token = t

\* the command is started only after every declared name had its outcome
HandOffAfterAll ==
    pc = "running" =>
        \A j \in 1..Len(DeclarationOrder) :
            Called(j) /\ HasOutcome(DeclarationOrder[j])

\* the script changes no file once the command is started
NoWriteAfterHandOff ==
    [][pc = "running" => (content' = content /\ mtime' = mtime)]_vars

\* at the hand-off every scanned file is what any order of the calls gives
SameForEveryOrder ==
    \A o \in Orders(Tokens), f \in Files :
        Scanned(f) => content[f] = OrderRun(o, RunStart[f], 1)

\* no bound value contains a declared placeholder
NoPlaceholderInValues ==
    \A t, u \in Tokens : Occ(env[t].value, PLACEHOLDER(u)) = 0

\* no bound value contains a character of a declared placeholder
NoPlaceholderCharInValues ==
    \A t \in Tokens : \A k \in 1..Len(env[t].value) :
        env[t].value[k] \notin ({ "_" } \cup Tokens)

\* in no scanned file do placeholders of two bound names share a character
NoBoundOverlap(cm) ==
    \A f \in Files, t, u \in Tokens :
        (Scanned(f) /\ t # u /\ ~Unbound(t) /\ ~Unbound(u)) =>
            \A i, j \in 1..Len(cm[f]) :
                (MatchAt(cm[f], PLACEHOLDER(t), i) /\ MatchAt(cm[f], PLACEHOLDER(u), j))
                    => (i + Len(PLACEHOLDER(t)) <= j \/ j + Len(PLACEHOLDER(u)) <= i)

(* C14 as stated: the command is started only after all four names were   *)
(* processed, no file changes after the hand-off, and when no bound value  *)
(* contains a declared placeholder the files at the hand-off are the same  *)
(* for every order of the four names.                                      *)
C14_OrderIndependent ==
    /\ [](HandOffAfterAll
            /\ ((pc = "running" /\ NoPlaceholderInValues) => SameForEveryOrder))
    /\ NoWriteAfterHandOff

(* C14 as amended: the same, the order not mattering when no bound value   *)
(* contains a character of a declared placeholder and no placeholders of   *)
(* two bound names overlap in the files the run starts from.               *)
C14_OrderIndependentWithoutOverlap ==
    /\ [](HandOffAfterAll
            /\ ((pc = "running" /\ NoPlaceholderCharInValues /\ NoBoundOverlap(RunStart))
                   => SameForEveryOrder))
    /\ NoWriteAfterHandOff

C14_Witness ==
    /\ pc = "running"
    /\ NoPlaceholderCharInValues
    /\ NoBoundOverlap(RunStart)
    /\ \E t, u \in Tokens :
          /\ t # u /\ ~Unbound(t) /\ ~Unbound(u)
          /\ Occ(RunStart["app.js"], PLACEHOLDER(t)) > 0
          /\ Occ(RunStart["app.js"], PLACEHOLDER(u)) > 0
          /\ Occ(content["app.js"], PLACEHOLDER(t)) = 0

====
